---- MODULE Spec2Model ----
(***************************************************************************)
(* Model of wgadmin's WireGuardService (services/wireguard.py): the config *)
(* parser (_parse_config and its helpers) and the runtime-status merge of  *)
(* list_peers.                                                             *)
(*                                                                         *)
(* A Python str is a sequence of one-character strings, so that strip,     *)
(* lstrip, lower, startswith and split are computed character by           *)
(* character.  Optional[T] is a record [some, val]: None is some = FALSE.  *)
(***************************************************************************)
EXTENDS Integers, Sequences, FiniteSets, TLC

(***************************************************************************)
(* Bounds of the model.                                                    *)
(***************************************************************************)
\* longest config, in lines
MaxLines == 3
\* most peer rows of a runtime dump after its first line
MaxRows == 2
\* most tokens created, and most waits between the steps on tokens
MaxTokens == 2
MaxWaits == 2
\* the longest short run of used hosts
MaxRun == 3

(***************************************************************************)
(* Python str primitives.                                                  *)
(***************************************************************************)
Whitespace == {" ", "\t"}
Digits == <<"0", "1", "2", "3", "4", "5", "6", "7", "8", "9">>
UpperCase == <<"A", "B", "C", "D", "E", "F", "G", "H", "I", "J", "K", "L", "M",
               "N", "O", "P", "Q", "R", "S", "T", "U", "V", "W", "X", "Y", "Z">>
LowerCase == <<"a", "b", "c", "d", "e", "f", "g", "h", "i", "j", "k", "l", "m",
               "n", "o", "p", "q", "r", "s", "t", "u", "v", "w", "x", "y", "z">>

None == [some |-> FALSE, val |-> <<>>]
NoneInt == [some |-> FALSE, val |-> 0]
Some(v) == [some |-> TRUE, val |-> v]

RECURSIVE LStripChars(_, _)
\* str.lstrip(chars)
LStripChars(s, chars) ==
  IF s # <<>> /\ Head(s) \in chars THEN LStripChars(Tail(s), chars) ELSE s

RECURSIVE RStripChars(_, _)
\* str.rstrip(chars)
RStripChars(s, chars) ==
  IF s # <<>> /\ s[Len(s)] \in chars
  THEN RStripChars(SubSeq(s, 1, Len(s) - 1), chars)
  ELSE s

\* str.strip()
Strip(s) == RStripChars(LStripChars(s, Whitespace), Whitespace)

\* str.lstrip("#")
LStripHash(s) == LStripChars(s, {"#"})

LowerChar(c) ==
  IF \E k \in 1..26 : UpperCase[k] = c
  THEN LowerCase[CHOOSE k \in 1..26 : UpperCase[k] = c]
  ELSE c

RECURSIVE Lower(_)
\* str.lower()
Lower(s) == IF s = <<>> THEN <<>> ELSE <<LowerChar(Head(s))>> \o Lower(Tail(s))

\* str.startswith(prefix)
StartsWith(s, prefix) ==
  Len(s) >= Len(prefix) /\ SubSeq(s, 1, Len(prefix)) = prefix

\* sep in s
Contains(s, sep) == \E k \in 1..Len(s) : s[k] = sep

\* position of the first sep in s (0 when there is none)
Find(s, sep) ==
  IF Contains(s, sep)
  THEN CHOOSE k \in 1..Len(s) : s[k] = sep /\ \A h \in 1..(k - 1) : s[h] # sep
  ELSE 0

\* str.split(sep, 1)
SplitFirst(s, sep) ==
  IF Contains(s, sep)
  THEN <<SubSeq(s, 1, Find(s, sep) - 1), SubSeq(s, Find(s, sep) + 1, Len(s))>>
  ELSE <<s>>

RECURSIVE Split(_, _)
\* str.split(sep)
Split(s, sep) ==
  IF Contains(s, sep)
  THEN <<SubSeq(s, 1, Find(s, sep) - 1)>>
         \o Split(SubSeq(s, Find(s, sep) + 1, Len(s)), sep)
  ELSE <<s>>

RECURSIVE Join(_, _)
\* sep.join(parts)
Join(parts, sep) ==
  IF parts = <<>> THEN <<>>
  ELSE IF Len(parts) = 1 THEN parts[1]
  ELSE parts[1] \o <<sep>> \o Join(Tail(parts), sep)

IsDigitChar(c) == \E k \in 1..10 : Digits[k] = c
DigitVal(c) == (CHOOSE k \in 1..10 : Digits[k] = c) - 1

\* str.isdigit()
IsDigit(s) == s # <<>> /\ \A k \in 1..Len(s) : IsDigitChar(s[k])

RECURSIVE DigitsVal(_)
DigitsVal(s) ==
  IF s = <<>> THEN 0
  ELSE 10 * DigitsVal(SubSeq(s, 1, Len(s) - 1)) + DigitVal(s[Len(s)])

Unsigned(s) == IF s # <<>> /\ Head(s) \in {"+", "-"} THEN Tail(s) ELSE s

\* int(s) returns (TRUE) or raises ValueError (FALSE): surrounding whitespace
\* and one sign are accepted around a run of decimal digits
IntOk(s) == IsDigit(Unsigned(Strip(s)))

\* int(s), where IntOk(s)
IntVal(s) ==
  IF Strip(s) # <<>> /\ Head(Strip(s)) = "-"
  THEN 0 - DigitsVal(Unsigned(Strip(s)))
  ELSE DigitsVal(Unsigned(Strip(s)))

(***************************************************************************)
(* The literals of the parser.                                             *)
(***************************************************************************)
HashMark == <<"#">>
PeerTag == <<"[", "p", "e", "e", "r", "]">>
NameTag == <<"n", "a", "m", "e", ":">>
PublicKeyKey == <<"p", "u", "b", "l", "i", "c", "k", "e", "y">>
AllowedIpsKey == <<"a", "l", "l", "o", "w", "e", "d", "i", "p", "s">>
EndpointKey == <<"e", "n", "d", "p", "o", "i", "n", "t">>
KeepaliveKey == <<"p", "e", "r", "s", "i", "s", "t", "e", "n", "t",
                  "k", "e", "e", "p", "a", "l", "i", "v", "e">>
\* the dump's placeholder for a peer without endpoint
NoEndpoint == <<"(", "n", "o", "n", "e", ")">>
\* public_key[:12]
NameLen == 12

(***************************************************************************)
(* WireGuardService._is_peer_header                                        *)
(***************************************************************************)
is_peer_header(line) == StartsWith(Lower(Strip(LStripHash(line))), PeerTag)

(***************************************************************************)
(* WireGuardService._collect_block: the block and the index after it.      *)
(* Indexes are 1-based: Python's index k is k + 1 here.                    *)
(***************************************************************************)
RECURSIVE BlockEnd(_, _, _)
BlockEnd(lines, j, start_index) ==
  IF j <= Len(lines) /\ ~(j # start_index /\ is_peer_header(lines[j]))
  THEN BlockEnd(lines, j + 1, start_index)
  ELSE j

collect_block(lines, start_index) ==
  <<SubSeq(lines, start_index, BlockEnd(lines, start_index, start_index) - 1),
    BlockEnd(lines, start_index, start_index)>>

(***************************************************************************)
(* WireGuardService._extract_name                                          *)
(***************************************************************************)
RECURSIVE NameAbove_farthest(_, _)
\* the scan going on to the farthest non-empty comment of the run
NameAbove_farthest(lines, k) ==
  IF k >= 1 /\ StartsWith(Strip(lines[k]), HashMark)
  THEN LET comment == Strip(LStripHash(Strip(lines[k])))
           above == NameAbove_farthest(lines, k - 1)
       IN  IF above.some THEN above
           ELSE IF comment = <<>> THEN None
           ELSE IF StartsWith(Lower(comment), NameTag)
                THEN Some(Strip(SplitFirst(comment, ":")[2]))
                ELSE Some(comment)
  ELSE None

RECURSIVE NameAbove(_, _)
NameAbove(lines, k) ==
  IF k >= 1 /\ StartsWith(Strip(lines[k]), HashMark)
  THEN LET comment == Strip(LStripHash(Strip(lines[k])))
       IN  IF comment # <<>>
           THEN IF StartsWith(Lower(comment), NameTag)
                THEN Some(Strip(SplitFirst(comment, ":")[2]))
                ELSE Some(comment)
           ELSE NameAbove(lines, k - 1)
  ELSE None

extract_name(lines, start_index) == NameAbove(lines, start_index - 1)

(***************************************************************************)
(* WireGuardService._parse_peer_block                                      *)
(***************************************************************************)
\* a line that is, after trimming, non-empty and no comment
IsActiveLine(line) == Strip(line) # <<>> /\ ~StartsWith(Strip(line), HashMark)

\* is_enabled decided by the header line alone
BlockEnabled_header(block_lines) == IsActiveLine(block_lines[1])

BlockEnabled(block_lines) ==
  \E k \in 1..Len(block_lines) : IsActiveLine(block_lines[k])

\* data[key] = value
DictSet(data, key, value) ==
  [k \in (DOMAIN data) \cup {key} |-> IF k = key THEN value ELSE data[k]]

EmptyDict == [k \in {} |-> <<>>]

\* the loop over raw_line, passing over commented-out lines
DataStep_active(data, raw_line) ==
  LET line == Strip(raw_line)
  IN  IF ~Contains(line, "=") \/ StartsWith(line, HashMark)
      THEN data
      ELSE DictSet(data,
                   Lower(Strip(SplitFirst(line, "=")[1])),
                   Strip(SplitFirst(line, "=")[2]))

\* the loop over raw_line, keeping the first value of a key
DataStep_first(data, raw_line) ==
  LET line == Strip(LStripHash(raw_line))
      key == Lower(Strip(SplitFirst(line, "=")[1]))
  IN  IF ~Contains(line, "=") \/ key \in DOMAIN data
      THEN data
      ELSE DictSet(data, key, Strip(SplitFirst(line, "=")[2]))

\* one pass of the loop over raw_line
DataStep(data, raw_line) ==
  LET line == Strip(LStripHash(raw_line))
  IN  IF ~Contains(line, "=")
      THEN data
      ELSE DictSet(data,
                   Lower(Strip(SplitFirst(line, "=")[1])),
                   Strip(SplitFirst(line, "=")[2]))

RECURSIVE BlockData(_, _)
\* the dict data after the first n lines of the block
BlockData(block_lines, n) ==
  IF n = 0 THEN EmptyDict
  ELSE DataStep(BlockData(block_lines, n - 1), block_lines[n])

\* data.get(key): Optional[str]
DictGet(data, key) == IF key \in DOMAIN data THEN Some(data[key]) ELSE None

RECURSIVE StripNonEmpty(_)
\* [ip.strip() for ip in parts if ip.strip()]
StripNonEmpty(parts) ==
  IF parts = <<>> THEN <<>>
  ELSE IF Strip(Head(parts)) # <<>>
       THEN <<Strip(Head(parts))>> \o StripNonEmpty(Tail(parts))
       ELSE StripNonEmpty(Tail(parts))

AllowedIps(data) ==
  StripNonEmpty(Split(IF AllowedIpsKey \in DOMAIN data
                      THEN data[AllowedIpsKey] ELSE <<>>, ","))

ConfigKeepalive(data) ==
  IF KeepaliveKey \in DOMAIN data /\ IntOk(data[KeepaliveKey])
  THEN Some(IntVal(data[KeepaliveKey]))
  ELSE NoneInt

\* Python's truth of an Optional[str]: neither None nor ""
Truthy(opt) == opt.some /\ opt.val # <<>>

Prefix(s, n) == SubSeq(s, 1, IF Len(s) < n THEN Len(s) ELSE n)

\* the record with name=name or public_key, the key not cut
WireGuardPeer_uncut(block_lines, name, data) ==
  [identifier |-> IF Truthy(name) THEN name.val ELSE data[PublicKeyKey],
   name |-> IF Truthy(name) THEN name.val ELSE data[PublicKeyKey],
   public_key |-> data[PublicKeyKey],
   allowed_ips |-> AllowedIps(data),
   endpoint |-> DictGet(data, EndpointKey),
   persistent_keepalive |-> ConfigKeepalive(data),
   latest_handshake |-> NoneInt,
   transfer_rx |-> NoneInt,
   transfer_tx |-> NoneInt,
   is_enabled |-> BlockEnabled(block_lines),
   raw_block |-> block_lines]

WireGuardPeer(block_lines, name, data) ==
  [identifier |-> IF Truthy(name) THEN name.val ELSE data[PublicKeyKey],
   name |-> IF Truthy(name) THEN name.val ELSE Prefix(data[PublicKeyKey], NameLen),
   public_key |-> data[PublicKeyKey],
   allowed_ips |-> AllowedIps(data),
   endpoint |-> DictGet(data, EndpointKey),
   persistent_keepalive |-> ConfigKeepalive(data),
   latest_handshake |-> NoneInt,
   transfer_rx |-> NoneInt,
   transfer_tx |-> NoneInt,
   is_enabled |-> BlockEnabled(block_lines),
   raw_block |-> block_lines]

\* parse_peer_block without its `if not public_key: return None`
parse_peer_block_keyless(block_lines, name) ==
  LET data == BlockData(block_lines, Len(block_lines))
      keyed == DictSet(data, PublicKeyKey, DictGet(data, PublicKeyKey).val)
  IN  <<WireGuardPeer(block_lines, name, keyed)>>

\* the list of the peers the block yields: empty for None
parse_peer_block(block_lines, name) ==
  LET data == BlockData(block_lines, Len(block_lines))
  IN  IF ~Truthy(DictGet(data, PublicKeyKey))
      THEN <<>>
      ELSE <<WireGuardPeer(block_lines, name, data)>>

(***************************************************************************)
(* Inputs: the lines a config is made of, and the rows of a runtime dump.  *)
(***************************************************************************)
\* '[Peer]'
HeaderLine ==
  <<"[", "P", "e", "e", "r", "]">>
\* '#[Peer]'
DisabledHeaderLine ==
  <<"#", "[", "P", "e", "e", "r", "]">>
\* ' # [peer]'
IndentedHeaderLine ==
  <<" ", "#", " ", "[", "p", "e", "e", "r", "]">>
\* '[Peer]x'
TrailingHeaderLine ==
  <<"[", "P", "e", "e", "r", "]", "x">>
\* 'PublicKey = ABCDEFGHIJKLMN'
KeyLine ==
  <<"P", "u", "b", "l", "i", "c", "K", "e", "y", " ", "=", " ", "A", "B", "C", "D", "E", "F", "G", "H", "I", "J", "K", "L", "M", "N">>
\* '#PublicKey = B='
DisabledKeyLine ==
  <<"#", "P", "u", "b", "l", "i", "c", "K", "e", "y", " ", "=", " ", "B", "=">>
\* '# Name: n1'
NameLine ==
  <<"#", " ", "N", "a", "m", "e", ":", " ", "n", "1">>
\* '# name:'
EmptyNameLine ==
  <<"#", " ", "n", "a", "m", "e", ":">>
\* ''
BlankLine ==
  <<>>
\* '#'
EmptyCommentLine ==
  <<"#">>
\* 'AllowedIPs = 1/32, ,2/32'
AllowedIpsLine ==
  <<"A", "l", "l", "o", "w", "e", "d", "I", "P", "s", " ", "=", " ", "1", "/", "3", "2", ",", " ", ",", "2", "/", "3", "2">>
\* 'PersistentKeepalive = 25'
KeepaliveLine ==
  <<"P", "e", "r", "s", "i", "s", "t", "e", "n", "t", "K", "e", "e", "p", "a", "l", "i", "v", "e", " ", "=", " ", "2", "5">>
\* '#PersistentKeepalive = x'
BadKeepaliveLine ==
  <<"#", "P", "e", "r", "s", "i", "s", "t", "e", "n", "t", "K", "e", "e", "p", "a", "l", "i", "v", "e", " ", "=", " ", "x">>
\* 'Endpoint = h:1'
EndpointLine ==
  <<"E", "n", "d", "p", "o", "i", "n", "t", " ", "=", " ", "h", ":", "1">>

KeyA == <<"A", "B", "C", "D", "E", "F", "G", "H", "I", "J", "K", "L", "M", "N">>
KeyB == <<"B", "=">>

LinePool ==
  {HeaderLine, DisabledHeaderLine, IndentedHeaderLine, TrailingHeaderLine,
   KeyLine, DisabledKeyLine, NameLine, EmptyNameLine, BlankLine,
   EmptyCommentLine, AllowedIpsLine, KeepaliveLine, BadKeepaliveLine,
   EndpointLine}

\* the configs of the parser's specification: every text of at most MaxLines
\* lines of the pool
Configs == UNION {[1..n -> LinePool] : n \in 0..MaxLines}

RuntimeLinePool == {HeaderLine, KeyLine, DisabledKeyLine, KeepaliveLine, EndpointLine}

\* the configs of the merge's specification: the empty one and those whose
\* first peer-header is the first line, or the second after one other line
RuntimeConfigs ==
  {c \in UNION {[1..n -> RuntimeLinePool] : n \in 0..MaxLines} :
     \/ c = <<>>
     \/ c[1] = HeaderLine
     \/ Len(c) >= 2 /\ c[1] = EndpointLine /\ c[2] = HeaderLine}

\* a row of `wg show <interface> dump`, tab-separated
Row(public_key, endpoint, handshake, rx, tx, keepalive) ==
  Join(<<<<"x">>, public_key, <<"x">>, endpoint, <<"a">>,
         handshake, rx, tx, keepalive>>, "\t")

\* the first line of a dump: the interface's own record
InterfaceRow == Join(<<<<"x">>, KeyA, <<"5", "1">>, <<"o", "f", "f">>>>, "\t")
GoodRowA == Row(KeyA, <<"h", ":", "2">>, <<"1", "7">>, <<"5">>, <<"7">>, <<"9">>)
IdleRowB == Row(KeyB, NoEndpoint, <<"0">>, <<"0">>, <<"0">>, <<"o", "f", "f">>)
OddRowA == Row(KeyA, NoEndpoint, <<"x">>, <<"-", "5">>, <<" ", "7">>, <<"-", "9">>)
ShortRowA == Join(<<<<"x">>, KeyA, <<"x">>, <<"h", ":", "2">>, <<"a">>,
                    <<"1", "7">>, <<"5">>, <<"7">>>>, "\t")
BadRxRowB == Row(KeyB, <<"h", ":", "2">>, <<"1", "7">>, <<"x">>, <<"7">>, <<"9">>)
BadTxRowA == Row(KeyA, <<"h", ":", "2">>, <<"1", "7">>, <<"5">>, <<>>, <<"9">>)

RowPool == {GoodRowA, IdleRowB, OddRowA, ShortRowA, BadRxRowB, BadTxRowA}

\* what running `wg show <interface> dump` gives: subprocess.run raises
\* (ok = FALSE, error the exception's class) or returns the lines of stdout
WgMissing == [ok |-> FALSE, stdout |-> <<>>, error |-> "FileNotFoundError"]
WgFailed == [ok |-> FALSE, stdout |-> <<>>, error |-> "CalledProcessError"]
WgDenied == [ok |-> FALSE, stdout |-> <<>>, error |-> "PermissionError"]
WgOutput(dump_lines) == [ok |-> TRUE, stdout |-> dump_lines, error |-> "none"]

\* no query has been made
NotQueried == [ok |-> FALSE, stdout |-> <<>>, error |-> "none"]

\* the ways the query fails
WgFailures == {WgMissing, WgFailed, WgDenied}

DumpTexts ==
  {<<>>} \cup
  {<<first>> \o rows :
     first \in {InterfaceRow, GoodRowA},
     rows \in UNION {[1..n -> RowPool] : n \in 0..MaxRows}}

\* the outcomes of the status query in the merge's specification
Dumps == WgFailures \cup {WgOutput(d) : d \in DumpTexts}

\* the outcomes of the status query in the parser's specification
BasicDumps ==
  WgFailures \cup
  {WgOutput(<<InterfaceRow, GoodRowA>>), WgOutput(<<InterfaceRow, BadRxRowB>>)}

(***************************************************************************)
(* WireGuardService._runtime_peer_map, from the lines of the dump on.      *)
(***************************************************************************)
\* fewest fields of a peer row
MinFields == 9

\* int(parts[6]) or int(parts[7]) raises ValueError
RowRaises(parts) == ~IntOk(parts[7]) \/ ~IntOk(parts[8])

\* the dict stored for a row; parts[k] of the code is parts[k + 1] here
RowStatus(parts) ==
  LET latest_handshake == IF IsDigit(parts[6]) THEN IntVal(parts[6]) ELSE 0
  IN  [endpoint |-> IF parts[4] # NoEndpoint THEN Some(parts[4]) ELSE None,
       allowed_ips |-> parts[5],
       latest_handshake |->
         IF latest_handshake # 0 THEN Some(latest_handshake) ELSE NoneInt,
       transfer_rx |-> Some(IntVal(parts[7])),
       transfer_tx |-> Some(IntVal(parts[8])),
       persistent_keepalive |->
         IF IsDigit(parts[9]) THEN Some(IntVal(parts[9])) ELSE NoneInt]

\* one pass of the loop over lines[1:]
StatusStep(status, line) ==
  LET parts == Split(line, "\t")
  IN  IF Len(parts) < MinFields
      THEN status
      ELSE DictSet(status, parts[2], RowStatus(parts))

\* status = {}
NoStatus == [k \in {} |-> RowStatus(Split(GoodRowA, "\t"))]

RECURSIVE StatusAfter(_, _)
\* the dict status after the first n of the rows
StatusAfter(rows, n) ==
  IF n = 0 THEN NoStatus
  ELSE StatusStep(StatusAfter(rows, n - 1), rows[n])

\* lines[0:], the first line taken for a row
Rest_all(dump_lines) == dump_lines

\* lines[1:]
Rest(dump_lines) == IF dump_lines = <<>> THEN <<>> ELSE Tail(dump_lines)

\* some row of the dump makes the loop raise ValueError
DumpRaises(dump_lines) ==
  \E k \in 1..Len(Rest(dump_lines)) :
    /\ Len(Split(Rest(dump_lines)[k], "\t")) >= MinFields
    /\ RowRaises(Split(Rest(dump_lines)[k], "\t"))

runtime_peer_map(dump_lines) ==
  StatusAfter(Rest(dump_lines), Len(Rest(dump_lines)))

\* the assignments of list_peers without the one to endpoint
Overlay_partial(peer, status) ==
  [peer EXCEPT !.latest_handshake = status.latest_handshake,
               !.transfer_rx = status.transfer_rx,
               !.transfer_tx = status.transfer_tx,
               !.persistent_keepalive = status.persistent_keepalive]

\* the assignments of list_peers and one more, of the dump's allowed-ips
Overlay_allowed(peer, status) ==
  [peer EXCEPT !.latest_handshake = status.latest_handshake,
               !.transfer_rx = status.transfer_rx,
               !.transfer_tx = status.transfer_tx,
               !.persistent_keepalive = status.persistent_keepalive,
               !.endpoint = status.endpoint,
               !.allowed_ips = <<status.allowed_ips>>]

\* the five assignments of list_peers to one peer
Overlay(peer, status) ==
  [peer EXCEPT !.latest_handshake = status.latest_handshake,
               !.transfer_rx = status.transfer_rx,
               !.transfer_tx = status.transfer_tx,
               !.persistent_keepalive = status.persistent_keepalive,
               !.endpoint = status.endpoint]

(***************************************************************************)
(* WireGuardService._read_config_lines and _run_script("wg_read_config.sh") *)
(***************************************************************************)
\* str.splitlines(), for "\n" line ends
SplitLines(text) ==
  IF text = <<>> THEN <<>>
  ELSE LET parts == Split(text, "\n")
       IN  IF parts[Len(parts)] = <<>>
           THEN SubSeq(parts, 1, Len(parts) - 1)
           ELSE parts

RECURSIVE Unlines(_)
\* the text of a file with the given lines, each ended by "\n"
Unlines(line_seq) ==
  IF line_seq = <<>> THEN <<>>
  ELSE Head(line_seq) \o <<"\n">> \o Unlines(Tail(line_seq))

\* what obtaining the config gives. Without sudo, config_path.read_text
\* raises (kind the exception's class) or returns the text. With sudo,
\* _run_script finds no script, or subprocess.run raises, or the script's
\* stdout is blank, is no JSON, is a JSON object without the key "config",
\* or is a JSON object whose "config" is the text
Source(use_sudo, kind, text) ==
  [use_sudo |-> use_sudo, kind |-> kind, text |-> text]

\* WireGuardError and its subclass WireGuardScriptError
WireGuardErrors == {"WireGuardError", "WireGuardScriptError"}

\* the dict _run_script returns, as the Optional value of its "config", or
\* the exception it raises
run_script(source) ==
  CASE source.kind = "script_missing" -> [raised |-> "WireGuardError", config |-> None]
    [] source.kind = "TimeoutExpired" -> [raised |-> "WireGuardScriptError", config |-> None]
    [] source.kind = "CalledProcessError" -> [raised |-> "WireGuardScriptError", config |-> None]
    [] source.kind = "sudo_missing" -> [raised |-> "FileNotFoundError", config |-> None]
    [] source.kind = "blank_stdout" -> [raised |-> "none", config |-> None]
    [] source.kind = "non_json" -> [raised |-> "WireGuardScriptError", config |-> None]
    [] source.kind = "json_no_config" -> [raised |-> "none", config |-> None]
    [] source.kind = "json_config" -> [raised |-> "none", config |-> Some(source.text)]

\* _read_config_lines with a failed read taken for an empty config
read_config_lines_silent(source) ==
  IF source.kind \in {"read_text", "json_config"}
  THEN [raised |-> "none", lines |-> SplitLines(source.text)]
  ELSE [raised |-> "none", lines |-> <<>>]

\* _read_config_lines: the lines, or the exception it raises
read_config_lines(source) ==
  IF source.use_sudo
  THEN LET result == run_script(source)
           data == IF result.config.some THEN result.config.val ELSE <<>>
       IN  IF result.raised # "none"
           THEN [raised |-> result.raised, lines |-> <<>>]
           ELSE IF data = <<>>
           THEN [raised |-> "WireGuardError", lines |-> <<>>]
           ELSE [raised |-> "none", lines |-> SplitLines(data)]
  ELSE CASE source.kind = "read_text" ->
              [raised |-> "none", lines |-> SplitLines(source.text)]
         [] source.kind = "PermissionError" ->
              [raised |-> "WireGuardError", lines |-> <<>>]
         [] source.kind = "FileNotFoundError" ->
              [raised |-> "WireGuardError", lines |-> <<>>]
         [] source.kind = "IsADirectoryError" ->
              [raised |-> "IsADirectoryError", lines |-> <<>>]

\* the kinds of source of each read path
DirectKinds == {"read_text", "PermissionError", "FileNotFoundError", "IsADirectoryError"}
SudoKinds ==
  {"script_missing", "TimeoutExpired", "CalledProcessError", "sudo_missing",
   "blank_stdout", "non_json", "json_no_config", "json_config"}

\* the lines of the configs of the read's specification
ReadLinePool == {HeaderLine, DisabledHeaderLine, KeyLine, DisabledKeyLine, NameLine}

\* the configs of the read's specification: one line more than the parser's,
\* for two peers with a key each
ReadConfigs == UNION {[1..n -> ReadLinePool] : n \in 0..(MaxLines + 1)}

\* their texts: every line ended, and a single line without its line end
ReadTexts ==
  {Unlines(c) : c \in ReadConfigs} \cup {l \o <<"\n", "\n">> : l \in ReadLinePool}
    \cup ReadLinePool

Sources ==
  {Source(FALSE, kind, <<>>) : kind \in DirectKinds \ {"read_text"}}
    \cup {Source(TRUE, kind, <<>>) : kind \in SudoKinds \ {"json_config"}}
    \cup {Source(FALSE, "read_text", text) : text \in ReadTexts}
    \cup {Source(TRUE, "json_config", text) : text \in ReadTexts}

(***************************************************************************)
(* WireGuardService.get_peer, from the list of list_peers on.              *)
(***************************************************************************)
NoPeer == [some |-> FALSE, val |-> <<>>]

RECURSIVE FirstMatch(_, _)
\* for peer in peer_list: return the first peer the identifier names
FirstMatch(peer_list, id) ==
  IF peer_list = <<>> THEN NoPeer
  ELSE IF Head(peer_list).identifier = id \/ Head(peer_list).public_key = id
       THEN Some(Head(peer_list))
       ELSE FirstMatch(Tail(peer_list), id)

\* get_peer comparing the identifier as given
get_peer_untrimmed(peer_list, given) == FirstMatch(peer_list, given)

get_peer(peer_list, given) == FirstMatch(peer_list, Strip(given))

\* the identifiers get_peer is called with: keys, names, a padded key, a
\* key in lower case, a key's first NameLen characters, and no peer's
Identifiers ==
  {KeyA, KeyB, <<"n", "1">>, <<" ">> \o KeyB \o <<"\t">>, Lower(KeyA),
   SubSeq(KeyA, 1, NameLen), PeerTag, Strip(LStripHash(DisabledHeaderLine)),
   Strip(LStripHash(DisabledKeyLine)), <<"z">>, <<>>}

(***************************************************************************)
(* The state: one call of list_peers.                                      *)
(***************************************************************************)
VARIABLES
  lines,     \* the lines of the config, as _read_config_lines returned them
  pc,        \* where the call is
  i,         \* the cursor of _parse_config
  peers,     \* the list of peers, built by _parse_config, updated by the merge
  headers,   \* per peer-header handled by _parse_config: its index, name,
             \* block and the dict data of _parse_peer_block
  parsed,    \* the list _parse_config returned
  proc,      \* the outcome of the status query
  runtime,   \* the dict of _runtime_peer_map
  m,         \* the position of the merge loop in peers
  exc,       \* the exception the call ended with
  source,    \* what obtaining the config gives
  identifier,  \* the argument of get_peer
  found      \* what get_peer returned

\* the variables of get_peer and of the read of the config
call_vars == <<source, identifier, found>>

VARIABLES
  tokens,    \* the rows of ConfigDownloadToken, by token
  issued,    \* how many tokens create_token has made
  now,       \* timezone.now(), in minutes
  waits,     \* how many times time has passed
  response   \* the response of the last public request

\* the variables of the download tokens
token_vars == <<tokens, issued, now, waits, response>>

VARIABLES
  existing_ips,  \* the argument of get_suggested_allowed_ips
  env_prefix,    \* os.environ["SERVER_WG_IPV4_PREFIX"]
  suggestion,    \* what get_suggested_allowed_ips returned
  form,          \* the ClientCreateForm: data, used_ips, used_names
  errors         \* form.errors after is_valid()

\* the variables of the client form
form_vars == <<existing_ips, env_prefix, suggestion, form, errors>>

VARIABLES
  audit_log,     \* the rows of AuditLog, oldest first
  script_calls,  \* the subprocess.run calls of _run_script, oldest first
  request        \* the last management request and how it ended

\* the variables of the management views
audit_vars == <<audit_log, script_calls, request>>

vars ==
  <<lines, pc, i, peers, headers, parsed, proc, runtime, m, exc, call_vars,
    token_vars, form_vars, audit_vars>>

\* no token, no request
NoResponse == [view |-> "none", token |-> 0, status |-> 0, saved |-> FALSE]
TokensIdle ==
  /\ tokens = <<>>
  /\ issued = 0
  /\ now = 0
  /\ waits = 0
  /\ response = NoResponse

\* no form, no suggestion
NoSuggestion == [some |-> FALSE, val |-> <<>>]
NoForm == [bound |-> FALSE]
NotValidated == [name |-> "unvalidated", allowed_ips |-> "unvalidated"]
FormIdle ==
  /\ existing_ips = {}
  /\ env_prefix = None
  /\ suggestion = NoSuggestion
  /\ form = NoForm
  /\ errors = NotValidated

\* no management request yet
NoRequest ==
  [number |-> 0, view |-> "none", method |-> "none", staff |-> FALSE,
   identifier |-> <<>>, outcome |-> "none"]
AuditIdle ==
  /\ audit_log = <<>>
  /\ script_calls = <<>>
  /\ request = NoRequest

\* a call of list_peers that has read the lines of a config from its file
InitWith(configs) ==
  /\ lines \in configs
  /\ source = Source(FALSE, "read_text", Unlines(lines))
  /\ identifier = <<>>
  /\ found = NoPeer
  /\ TokensIdle
  /\ AuditIdle
  /\ FormIdle
  /\ pc = "parse_config"
  /\ i = 1
  /\ peers = <<>>
  /\ headers = <<>>
  /\ parsed = <<>>
  /\ proc = NotQueried
  /\ runtime = NoStatus
  /\ m = 0
  /\ exc = "none"

\* _parse_config, a line that is no peer-header: i += 1
ScanLine ==
  /\ pc = "parse_config"
  /\ i <= Len(lines)
  /\ ~is_peer_header(Strip(lines[i]))
  /\ i' = i + 1
  /\ UNCHANGED <<lines, pc, peers, headers, parsed, proc, runtime, m, exc>>
  /\ UNCHANGED <<call_vars, token_vars, form_vars, audit_vars>>

\* _parse_config, a peer-header: name, block, peer, i = jump_to
ParseBlock ==
  /\ pc = "parse_config"
  /\ i <= Len(lines)
  /\ is_peer_header(Strip(lines[i]))
  /\ LET name == extract_name(lines, i)
         block_lines == collect_block(lines, i)[1]
         jump_to == collect_block(lines, i)[2]
     IN  /\ peers' = peers \o parse_peer_block(block_lines, name)
         /\ headers' = Append(headers,
                              [index |-> i, name |-> name,
                               block_lines |-> block_lines, jump_to |-> jump_to,
                               data |-> BlockData(block_lines, Len(block_lines)),
                               emitted |-> Len(parse_peer_block(block_lines, name))])
         /\ i' = jump_to
  /\ UNCHANGED <<lines, pc, parsed, proc, runtime, m, exc>>
  /\ UNCHANGED <<call_vars, token_vars, form_vars, audit_vars>>

\* _parse_config returns peers
ParseReturn ==
  /\ pc = "parse_config"
  /\ i > Len(lines)
  /\ parsed' = peers
  /\ pc' = "config_parsed"
  /\ UNCHANGED <<lines, i, peers, headers, proc, runtime, m, exc>>
  /\ UNCHANGED <<call_vars, token_vars, form_vars, audit_vars>>

\* list_peers(include_runtime=False) returns the parsed peers
ReturnConfigOnly ==
  /\ pc = "config_parsed"
  /\ pc' = "returned"
  /\ UNCHANGED <<lines, i, peers, headers, parsed, proc, runtime, m, exc>>
  /\ UNCHANGED <<call_vars, token_vars, form_vars, audit_vars>>

\* the exceptions of subprocess.run that _runtime_peer_map turns into
\* WireGuardError
CaughtByQuery == {"FileNotFoundError", "CalledProcessError"}

\* list_peers(include_runtime=True) calls _runtime_peer_map: a WireGuardError
\* is an empty dict, any other exception of the query and a row with a bad
\* transfer field end the call
RuntimePeerMap(outcome) ==
  /\ pc = "config_parsed"
  /\ proc' = outcome
  /\ IF ~outcome.ok /\ outcome.error \in CaughtByQuery
     THEN /\ runtime' = NoStatus
          /\ pc' = "merge"
          /\ m' = 1
          /\ exc' = exc
     ELSE IF ~outcome.ok
     THEN /\ exc' = outcome.error
          /\ pc' = "raised"
          /\ UNCHANGED <<runtime, m>>
     ELSE IF DumpRaises(outcome.stdout)
     THEN /\ exc' = "ValueError"
          /\ pc' = "raised"
          /\ UNCHANGED <<runtime, m>>
     ELSE /\ runtime' = runtime_peer_map(outcome.stdout)
          /\ pc' = "merge"
          /\ m' = 1
          /\ exc' = exc
  /\ UNCHANGED <<lines, i, peers, headers, parsed>>
  /\ UNCHANGED <<call_vars, token_vars, form_vars, audit_vars>>

\* one pass of `for peer in peers`
MergePeer ==
  /\ pc = "merge"
  /\ m <= Len(peers)
  /\ peers' = IF peers[m].public_key \in DOMAIN runtime
              THEN [peers EXCEPT ![m] = Overlay(peers[m], runtime[peers[m].public_key])]
              ELSE peers
  /\ m' = m + 1
  /\ UNCHANGED <<lines, pc, i, headers, parsed, proc, runtime, exc>>
  /\ UNCHANGED <<call_vars, token_vars, form_vars, audit_vars>>

\* list_peers returns peers
ReturnMerged ==
  /\ pc = "merge"
  /\ m > Len(peers)
  /\ pc' = "returned"
  /\ UNCHANGED <<lines, i, peers, headers, parsed, proc, runtime, m, exc>>
  /\ UNCHANGED <<call_vars, token_vars, form_vars, audit_vars>>

\* _parse_config calls _read_config_lines: lines, or the call ends
ReadConfigLines ==
  /\ pc = "read_config"
  /\ IF read_config_lines(source).raised # "none"
     THEN /\ exc' = read_config_lines(source).raised
          /\ pc' = "raised"
          /\ lines' = lines
     ELSE /\ lines' = read_config_lines(source).lines
          /\ pc' = "parse_config"
          /\ exc' = exc
  /\ UNCHANGED <<i, peers, headers, parsed, proc, runtime, m, call_vars>>
  /\ UNCHANGED <<token_vars, form_vars, audit_vars>>

\* get_peer(given), once its list_peers(include_runtime=True) has returned
GetPeer(given) ==
  /\ pc = "returned"
  /\ m > 0
  /\ identifier' = given
  /\ found' = get_peer(peers, given)
  /\ pc' = "got"
  /\ UNCHANGED <<lines, i, peers, headers, parsed, proc, runtime, m, exc, source>>
  /\ UNCHANGED <<token_vars, form_vars, audit_vars>>

NextWith(outcomes) ==
  \/ ScanLine
  \/ ParseBlock
  \/ ParseReturn
  \/ ReturnConfigOnly
  \/ \E outcome \in outcomes : RuntimePeerMap(outcome)
  \/ MergePeer
  \/ ReturnMerged

Init == InitWith(Configs)
Next == NextWith(BasicDumps)
Spec == Init /\ [][Next]_vars

InitRuntime == InitWith(RuntimeConfigs)
NextRuntime == NextWith(Dumps)
SpecRuntime == InitRuntime /\ [][NextRuntime]_vars

\* the outcomes of the status query in the read's specification
ReadDumps == {WgFailed, WgOutput(<<InterfaceRow, GoodRowA>>)}

\* a call of list_peers or get_peer, from the read of the config on
InitRead ==
  /\ source \in Sources
  /\ lines = <<>>
  /\ identifier = <<>>
  /\ found = NoPeer
  /\ TokensIdle
  /\ AuditIdle
  /\ FormIdle
  /\ pc = "read_config"
  /\ i = 1
  /\ peers = <<>>
  /\ headers = <<>>
  /\ parsed = <<>>
  /\ proc = NotQueried
  /\ runtime = NoStatus
  /\ m = 0
  /\ exc = "none"

NextRead ==
  \/ ReadConfigLines
  \/ NextWith(ReadDumps)
  \/ \E given \in Identifiers : GetPeer(given)

SpecRead == InitRead /\ [][NextRead]_vars

(***************************************************************************)
(* The download tokens: ConfigDownloadToken, the public views, the cleanups *)
(***************************************************************************)
\* ttl_minutes of create_token when not given
DefaultTtl == 60

\* the age, in days, at which _cleanup_tokens deletes a token
CleanupDays == 30

\* timedelta(days=1) in minutes
DayMinutes == 1440

\* ConfigDownloadToken.is_expired with the expiry minute still valid
is_expired_late(token, time) == time > token.expires_at

\* ConfigDownloadToken.is_expired
is_expired(token, time) == time >= token.expires_at

\* get_object_or_404 without the is_active filter
found_token_any(store, t) == t \in DOMAIN store

\* get_object_or_404(ConfigDownloadToken, token=token, is_active=True) finds
\* a row
found_token(store, t) == t \in DOMAIN store /\ store[t].is_active

\* the rows without those of the given tokens
Without(store, gone) == [t \in (DOMAIN store) \ gone |-> store[t]]

\* filter(is_active=True, expires_at__lte=now).update(is_active=False)
DeactivateExpired(store, time) ==
  [t \in DOMAIN store |->
     IF store[t].is_active /\ store[t].expires_at <= time
     THEN [store[t] EXCEPT !.is_active = FALSE]
     ELSE store[t]]

\* filter(created_at__lt=cutoff).delete()
DeleteOld(store, time) ==
  Without(store,
          {t \in DOMAIN store : store[t].created_at < time - CleanupDays * DayMinutes})

\* what the view does with a valid token: get_peer finds the peer and the
\* config is there, or there is no such peer, or no config, or get_peer
\* raises WireGuardError
Backends == {"served", "no_peer", "no_config", "WireGuardError"}

\* the status of the response for a valid token
BackendStatus(backend) ==
  CASE backend = "served" -> 200
    [] backend = "no_peer" -> 404
    [] backend = "no_config" -> 404
    [] backend = "WireGuardError" -> 500

\* the ttl_minutes create_token is called with
Ttls == {-1, 0, DefaultTtl}

\* how long the steps on tokens wait for
Waits == {1, DefaultTtl, CleanupDays * DayMinutes}

\* the tokens of requests: those create_token can make, and one it never makes
Requestable == 0..MaxTokens

\* the variables of list_peers and get_peer
service_vars ==
  <<lines, pc, i, peers, headers, parsed, proc, runtime, m, exc, call_vars>>

\* ConfigDownloadToken.create_token
CreateToken(ttl_minutes) ==
  /\ issued < MaxTokens
  /\ issued' = issued + 1
  /\ tokens' = [t \in (DOMAIN tokens) \cup {issued + 1} |->
                 IF t = issued + 1
                 THEN [created_at |-> now, expires_at |-> now + ttl_minutes,
                       is_active |-> TRUE]
                 ELSE tokens[t]]
  /\ response' = NoResponse
  /\ UNCHANGED <<now, waits, service_vars, form_vars, audit_vars>>

\* time passes
Wait(minutes) ==
  /\ waits < MaxWaits
  /\ waits' = waits + 1
  /\ now' = now + minutes
  /\ response' = NoResponse
  /\ UNCHANGED <<tokens, issued, service_vars, form_vars, audit_vars>>

\* views._cleanup_tokens
CleanupTokens ==
  /\ tokens' = DeleteOld(DeactivateExpired(tokens, now), now)
  /\ response' = NoResponse
  /\ UNCHANGED <<issued, now, waits, service_vars, form_vars, audit_vars>>

\* the management command cleanup_tokens
CleanupCommand ==
  /\ tokens' = DeactivateExpired(tokens, now)
  /\ response' = NoResponse
  /\ UNCHANGED <<issued, now, waits, service_vars, form_vars, audit_vars>>

\* the admin site saves a token with is_active changed
AdminSetActive(t, flag) ==
  /\ t \in DOMAIN tokens
  /\ tokens' = [tokens EXCEPT ![t].is_active = flag]
  /\ response' = NoResponse
  /\ UNCHANGED <<issued, now, waits, service_vars, form_vars, audit_vars>>

\* views.public_config: 404 for no active row; for an expired one the row
\* saved with is_active False and the expired page with status 404; else
\* the page with the peer's config, or 404 for no peer or no config
PublicConfig(t, backend) ==
  /\ IF ~found_token(tokens, t)
     THEN /\ response' = [view |-> "public_config", token |-> t,
                          status |-> 404, saved |-> FALSE]
          /\ tokens' = tokens
     ELSE IF is_expired(tokens[t], now)
     THEN /\ tokens' = [tokens EXCEPT ![t].is_active = FALSE]
          /\ response' = [view |-> "public_config", token |-> t,
                          status |-> 404, saved |-> TRUE]
     ELSE /\ response' = [view |-> "public_config", token |-> t,
                          status |-> BackendStatus(backend), saved |-> FALSE]
          /\ tokens' = tokens
  /\ UNCHANGED <<issued, now, waits, service_vars, form_vars, audit_vars>>

\* views.public_config_download: the same with Http404 for the expired
\* token and the config file as the response
PublicConfigDownload(t, backend) ==
  /\ IF ~found_token(tokens, t)
     THEN /\ response' = [view |-> "public_config_download", token |-> t,
                          status |-> 404, saved |-> FALSE]
          /\ tokens' = tokens
     ELSE IF is_expired(tokens[t], now)
     THEN /\ tokens' = [tokens EXCEPT ![t].is_active = FALSE]
          /\ response' = [view |-> "public_config_download", token |-> t,
                          status |-> 404, saved |-> TRUE]
     ELSE /\ response' = [view |-> "public_config_download", token |-> t,
                          status |-> BackendStatus(backend), saved |-> FALSE]
          /\ tokens' = tokens
  /\ UNCHANGED <<issued, now, waits, service_vars, form_vars, audit_vars>>

\* no call of list_peers goes on
ServiceIdle ==
  /\ lines = <<>>
  /\ source = Source(FALSE, "read_text", <<>>)
  /\ identifier = <<>>
  /\ found = NoPeer
  /\ pc = "idle"
  /\ i = 1
  /\ peers = <<>>
  /\ headers = <<>>
  /\ parsed = <<>>
  /\ proc = NotQueried
  /\ runtime = NoStatus
  /\ m = 0
  /\ exc = "none"

InitTokens == ServiceIdle /\ TokensIdle /\ FormIdle /\ AuditIdle

NextTokens ==
  \/ \E ttl_minutes \in Ttls : CreateToken(ttl_minutes)
  \/ \E minutes \in Waits : Wait(minutes)
  \/ CleanupTokens
  \/ CleanupCommand
  \/ \E t \in Requestable, flag \in BOOLEAN : AdminSetActive(t, flag)
  \/ \E t \in Requestable, backend \in Backends : PublicConfig(t, backend)
  \/ \E t \in Requestable, backend \in Backends : PublicConfigDownload(t, backend)

SpecTokens == InitTokens /\ [][NextTokens]_vars

(***************************************************************************)
(* views.get_suggested_allowed_ips. An allowed IP is held as ip_network    *)
(* reads it: an IPv4 text by its first three octets (net), its last octet  *)
(* (host) and its prefix length, written with `/len` or bare; any other    *)
(* text by its kind.                                                       *)
(***************************************************************************)
\* range(2, 255)
HostLo == 2
HostHi == 254

\* the host of the address returned when the loop finds none
FallbackHost == 2

\* a /32 prefix length, and the /24 one of a network entry
HostBits == 32
NetBits == 24

\* `10.0.0.`, the prefix when neither the environment nor the peers give one
DefaultNet == <<10, 0, 0>>
OtherNet == <<10, 8, 0>>

V4(net, host, prefixlen, written) ==
  [kind |-> "v4", net |-> net, host |-> host, prefixlen |-> prefixlen,
   written |-> written]
V6Entry == [kind |-> "v6", net |-> <<>>, host |-> 0, prefixlen |-> 128, written |-> "cidr"]
JunkEntry == [kind |-> "junk", net |-> <<>>, host |-> 0, prefixlen |-> 0, written |-> "bare"]

\* the text `<net>.<host>/<prefixlen>`
Cidr(net, host, prefixlen) == [net |-> net, host |-> host, prefixlen |-> prefixlen]

\* f"{net.network_address}/{net.prefixlen}" of ip_network(raw_ip,
\* strict=False): a bare address is a /32, the host bits of a /24 are cleared
NetworkText(entry) ==
  IF entry.written = "bare" THEN Cidr(entry.net, entry.host, HostBits)
  ELSE IF entry.prefixlen = NetBits THEN Cidr(entry.net, 0, NetBits)
  ELSE Cidr(entry.net, entry.host, entry.prefixlen)

\* ipv4_networks
Ipv4Networks(existing) == {entry \in existing : entry.kind = "v4"}

\* used_values
UsedValues(existing) == {NetworkText(entry) : entry \in Ipv4Networks(existing)}

\* the prefixes the code may end with: that of the environment, else that of
\* the IPv4 entry the iteration over the set meets first, else the default
Prefixes(existing, env) ==
  IF env.some THEN {env.val}
  ELSE IF Ipv4Networks(existing) # {}
  THEN {entry.net : entry \in Ipv4Networks(existing)}
  ELSE {DefaultNet}

Min(S) == CHOOSE x \in S : \A y \in S : x <= y

\* the hosts from the given one on whose candidate is not in used_values
FreeHosts(prefix, used, host) ==
  {h \in host..HostHi : Cidr(prefix, h, HostBits) \notin used}

\* for host in range(2, 255): the first candidate not in used_values, and
\* the fallback behind the loop
FirstFree(prefix, used, host) ==
  IF FreeHosts(prefix, used, host) = {}
  THEN Some(Cidr(prefix, FallbackHost, HostBits))
  ELSE Some(Cidr(prefix, Min(FreeHosts(prefix, used, host)), HostBits))

\* the hosts in use from HostLo up to the given one, as /32 entries
Run(net, last) == {V4(net, host, HostBits, "cidr") : host \in HostLo..last}

\* where the runs of used hosts end: short runs, and the runs that leave
\* one host or none
RunEnds == (1..MaxRun) \cup {HostHi - 1, HostHi}

\* entries taken out of a run, and entries added to it
HolePool == {V4(DefaultNet, HostLo, HostBits, "cidr"), V4(DefaultNet, HostLo + 1, HostBits, "cidr")}
ExtraPool ==
  {V4(OtherNet, HostLo, HostBits, "cidr"), V4(DefaultNet, HostLo + 2, HostBits, "bare"),
   V4(OtherNet, 0, NetBits, "cidr"), V6Entry, JunkEntry}

ExistingSets ==
  {(Run(DefaultNet, last) \ holes) \cup extras :
     last \in RunEnds, holes \in SUBSET HolePool, extras \in SUBSET ExtraPool}

\* SERVER_WG_IPV4_PREFIX: unset, or a prefix
EnvPrefixes == {None, Some(DefaultNet), Some(OtherNet)}

\* get_suggested_allowed_ips(existing_ips)
GetSuggestedAllowedIps ==
  /\ ~suggestion.some
  /\ \E prefix \in Prefixes(existing_ips, env_prefix) :
       suggestion' = FirstFree(prefix, UsedValues(existing_ips), HostLo)
  /\ UNCHANGED <<existing_ips, env_prefix, form, errors, service_vars, token_vars,
               audit_vars>>

InitSuggest ==
  /\ ServiceIdle
  /\ TokensIdle
  /\ AuditIdle
  /\ existing_ips \in ExistingSets
  /\ env_prefix \in EnvPrefixes
  /\ suggestion = NoSuggestion
  /\ form = NoForm
  /\ errors = NotValidated

NextSuggest == GetSuggestedAllowedIps

SpecSuggest == InitSuggest /\ [][NextSuggest]_vars

(***************************************************************************)
(* forms.ClientCreateForm: is_valid() on the data of a request.            *)
(***************************************************************************)
\* max_length of the fields, and the fewest characters of a name
NameMaxLength == 64
AllowedIpsMaxLength == 128
NameMinLength == 3

\* what CharField.clean finds wrong with a value, already stripped
CharFieldError(value, max_length) ==
  IF value = <<>> THEN "required"
  ELSE IF Len(value) > max_length THEN "max_length"
  ELSE "none"

\* the characters of ^[A-Za-z0-9._-]+$
IsNameChar(c) ==
  \/ \E k \in 1..Len(UpperCase) : UpperCase[k] = c
  \/ \E k \in 1..Len(LowerCase) : LowerCase[k] = c
  \/ IsDigitChar(c)
  \/ c \in {".", "_", "-"}

\* {ip.strip() for ip in used_ips if ip.strip()}, and the same for names
StrippedSet(texts) == {Strip(text) : text \in {t \in texts : Strip(t) # <<>>}}

\* clean_name
CleanName(value, used_names) ==
  LET name == Strip(value)
  IN  IF Len(name) < NameMinLength THEN "too_short"
      ELSE IF \E k \in 1..Len(name) : ~IsNameChar(name[k]) THEN "bad_characters"
      ELSE IF name \in used_names THEN "exists"
      ELSE "none"

\* requested_ips
RequestedIps(value) ==
  {Strip(ip) : ip \in {Split(Strip(value), ",")[k] : k \in 1..Len(Split(Strip(value), ","))}}
    \ {<<>>}

\* clean_allowed_ips comparing the pieces untrimmed
CleanAllowedIps_untrimmed(value, used_ips) ==
  IF used_ips \cap {Split(Strip(value), ",")[k] : k \in 1..Len(Split(Strip(value), ","))} # {}
  THEN "in_use"
  ELSE "none"

\* clean_allowed_ips
CleanAllowedIps(value, used_ips) ==
  IF used_ips # {} /\ used_ips \cap RequestedIps(value) # {}
  THEN "in_use"
  ELSE "none"

\* the error of a field: that of CharField.clean, else that of clean_<field>
FieldError(field_error, clean_error) ==
  IF field_error # "none" THEN field_error ELSE clean_error

RECURSIVE Repeat(_, _)
\* text * n
Repeat(text, n) ==
  IF n = 0 THEN <<>>
  ELSE IF n % 2 = 0 THEN Repeat(text, n \div 2) \o Repeat(text, n \div 2)
  ELSE text \o Repeat(text, n - 1)

IpOne == <<"1", "/", "3", "2">>
IpTwo == <<"2", "/", "3", "2">>
IpThree == <<"3", "/", "3", "2">>

\* the allowed_ips of a request: one IP, several with whitespace around
\* them, an IP that another one ends with, none, and texts of exactly and of
\* more than max_length characters
AllowedIpsInputs ==
  {IpOne, <<" ">> \o IpOne \o <<" ", ",", " ">> \o IpTwo \o <<" ">>,
   IpThree \o <<",">> \o IpOne, IpThree, <<"1">> \o IpOne, <<>>, <<" ", ",">>,
   IpOne \o <<",">> \o Repeat(<<"9">>, AllowedIpsMaxLength - Len(IpOne) - 1),
   IpOne \o <<",">> \o Repeat(<<"9">>, AllowedIpsMaxLength - Len(IpOne))}

\* the used_ips a form is made with
UsedIpSets == SUBSET {IpOne, IpTwo}

NameInputs ==
  {<<"a", "b", "c">>, <<"a", "b">>, <<"a", " ", "b">>, <<"d", "u", "p">>,
   Repeat(<<"a">>, NameMaxLength + 1)}

UsedNameSets == {{}, {<<"d", "u", "p">>}}

\* the form bound to the data of a request
BoundForm(name, allowed_ips, used_ips, used_names) ==
  [bound |-> TRUE, name |-> name, allowed_ips |-> allowed_ips,
   used_ips |-> StrippedSet(used_ips), used_names |-> StrippedSet(used_names)]

\* form.errors after the fields are cleaned
FormErrors(name, allowed_ips, used_ips, used_names) ==
  [name |-> FieldError(CharFieldError(Strip(name), NameMaxLength),
                       CleanName(Strip(name), StrippedSet(used_names))),
   allowed_ips |->
     FieldError(CharFieldError(Strip(allowed_ips), AllowedIpsMaxLength),
                CleanAllowedIps(Strip(allowed_ips), StrippedSet(used_ips)))]

\* ClientCreateForm(data, used_ips=..., used_names=...).is_valid()
IsValid(name, allowed_ips, used_ips, used_names) ==
  /\ form' = BoundForm(name, allowed_ips, used_ips, used_names)
  /\ errors' = FormErrors(name, allowed_ips, used_ips, used_names)
  /\ UNCHANGED <<existing_ips, env_prefix, suggestion, service_vars, token_vars,
               audit_vars>>

InitForm == ServiceIdle /\ TokensIdle /\ FormIdle /\ AuditIdle

NextForm ==
  \E name \in NameInputs, allowed_ips \in AllowedIpsInputs,
     used_ips \in UsedIpSets, used_names \in UsedNameSets :
    IsValid(name, allowed_ips, used_ips, used_names)

SpecForm == InitForm /\ [][NextForm]_vars

(***************************************************************************)
(* views.create_client, toggle_client, delete_client: the management       *)
(* requests, from the route to the AuditLog row.                           *)
(***************************************************************************)
\* how many management requests are made
MaxRequests == 2

\* the characters of views.IDENTIFIER_PATTERN, ^[A-Za-z0-9._+=-]+$
IsIdentifierChar(c) == IsNameChar(c) \/ c \in {"+", "="}

\* _validate_identifier: IDENTIFIER_PATTERN.match(identifier); `$` matches
\* at the end and before a newline that ends the text
validate_identifier(given) ==
  LET last == Len(given)
      body == IF last > 0 /\ given[last] = "\n"
              THEN SubSeq(given, 1, last - 1)
              ELSE given
  IN  body # <<>> /\ \A k \in 1..Len(body) : IsIdentifierChar(body[k])

\* the routes of urls.py with an given: the text between `clients/` and
\* the next `/` is matched by [A-Za-z0-9._-]+
Routed(given) ==
  given # <<>> /\ \A k \in 1..Len(given) : IsNameChar(given[k])

\* what a view did: how it ended, the scripts it ran, the rows it wrote
Did(outcome, calls, entries) ==
  [outcome |-> outcome, calls |-> calls, entries |-> entries]

\* an AuditLog row
Entry(action, client_identifier, details) ==
  [action |-> action, client_identifier |-> client_identifier,
   details |-> details]

\* what _run_script raises for an outcome of the script
Raised(kind) == run_script(Source(TRUE, kind, <<>>)).raised

\* the subprocess.run of _run_script, which a missing script never reaches
Calls(script, flag, id, allowed_ips, kind) ==
  IF kind = "script_missing"
  THEN <<>>
  ELSE <<[script |-> script, flag |-> flag, id |-> id,
          allowed_ips |-> allowed_ips, returned |-> Raised(kind) = "none"]>>

\* try: service.<call>  except WireGuardError: ...  else: AuditLog.objects.create,
\* with the row written whatever the call did
Managed_logged(calls, raised, entry) == Did("done", calls, <<entry>>)

\* try: service.<call>  except WireGuardError: ...  else: AuditLog.objects.create
Managed(calls, raised, entry) ==
  IF raised \in WireGuardErrors THEN Did("script_error", calls, <<>>)
  ELSE IF raised # "none" THEN Did("exception", calls, <<>>)
  ELSE Did("done", calls, <<entry>>)

\* toggle_client
toggle_client(method, given, enable, kind) ==
  IF method # "POST" THEN Did("not_post", <<>>, <<>>)
  ELSE IF ~validate_identifier(given)
  THEN Did("invalid_identifier", <<>>, <<>>)
  ELSE Managed(Calls("wg_toggle_peer.sh",
                     IF enable THEN "--enable" ELSE "--disable",
                     given, <<>>, kind),
               Raised(kind),
               Entry(IF enable THEN "enable" ELSE "disable", given, <<>>))

\* delete_client
delete_client(method, given, kind) ==
  IF method # "POST" THEN Did("not_post", <<>>, <<>>)
  ELSE IF ~validate_identifier(given)
  THEN Did("invalid_identifier", <<>>, <<>>)
  ELSE Managed(Calls("wg_delete_peer.sh", "none", given, <<>>, kind),
               Raised(kind), Entry("delete", given, <<>>))

\* how create_client obtains the config: from the file, or from the helper
\* script, which gives it, fails, or cannot be started
Listings ==
  {Source(FALSE, "read_text", Unlines(<<HeaderLine, KeyLine>>)),
   Source(TRUE, "json_config", Unlines(<<HeaderLine, KeyLine>>)),
   Source(TRUE, "CalledProcessError", <<>>),
   Source(TRUE, "sudo_missing", <<>>)}

\* the subprocess.run of the helper script of _read_config_lines
ListingCalls(listing) ==
  IF listing.use_sudo
  THEN Calls("wg_read_config.sh", "none", <<>>, <<>>, listing.kind)
  ELSE <<>>

\* _safe_list_peers: what escapes it
ListingRaised(listing) ==
  IF read_config_lines(listing).raised \in WireGuardErrors
  THEN "none"
  ELSE read_config_lines(listing).raised

\* _safe_list_peers: the peers' allowed IPs and identifiers, none when the
\* read raised a WireGuardError
Used(listing, used) ==
  IF read_config_lines(listing).raised = "none"
  THEN used
  ELSE [ips |-> {}, names |-> {}]

\* does create_client get as far as binding the form
FormReached(method, listing) ==
  method = "POST" /\ ListingRaised(listing) = "none"

\* form.is_valid()
Valid(form_errors) ==
  form_errors.name = "none" /\ form_errors.allowed_ips = "none"

\* create_client
create_client(method, name, allowed_ips, listing, used, kind) ==
  LET seen == Used(listing, used)
  IN  IF method # "POST" THEN Did("not_post", <<>>, <<>>)
      ELSE IF ListingRaised(listing) # "none"
      THEN Did("exception", ListingCalls(listing), <<>>)
      ELSE IF ~Valid(FormErrors(name, allowed_ips, seen.ips, seen.names))
      THEN Did("invalid_form", ListingCalls(listing), <<>>)
      ELSE LET did == Managed(Calls("wg_create_peer.sh", "none", Strip(name),
                                    Strip(allowed_ips), kind),
                              Raised(kind),
                              Entry("create", Strip(name), Strip(allowed_ips)))
           IN  Did(did.outcome, ListingCalls(listing) \o did.calls, did.entries)

\* staff_required: login_required and user_passes_test(is_staff) send
\* anyone else to the login page
staff_required(staff, did) ==
  IF staff THEN did ELSE Did("login", <<>>, <<>>)

\* the URL resolver, for the routes with an given
Resolved(given, did) ==
  IF Routed(given) THEN did ELSE Did("not_routed", <<>>, <<>>)

\* the requests: their methods, identifiers, names, allowed IPs, the peers
\* the config has, and what the management script does
Methods == {"GET", "POST"}
RequestIdentifiers ==
  {<<"a", "b", "c">>, <<"a", "+", "b">>, <<"a", " ", "b">>,
   <<"a", "b", "c", "\n">>}
CreateNames == {<<"a", "b", "c">>, <<"a", "b">>, <<"d", "u", "p">>}
CreateIps == {IpOne, <<>>}
UsedByPeers ==
  {[ips |-> {}, names |-> {}], [ips |-> {IpOne}, names |-> {<<"d", "u", "p">>}]}
ScriptKinds == SudoKinds \ {"json_config"}

\* a request is answered: the rows and the calls are kept, in order
Answered(view, method, staff, given, did) ==
  /\ request.number < MaxRequests
  /\ audit_log' = audit_log \o did.entries
  /\ script_calls' = script_calls \o did.calls
  /\ request' = [number |-> request.number + 1, view |-> view,
                 method |-> method, staff |-> staff,
                 identifier |-> given, outcome |-> did.outcome]

\* a request for clients/create/
CreateClient(method, staff, name, allowed_ips, listing, used, kind) ==
  /\ Answered("create", method, staff, <<>>,
              staff_required(staff,
                create_client(method, name, allowed_ips, listing, used, kind)))
  /\ IF staff /\ FormReached(method, listing)
     THEN /\ form' = BoundForm(name, allowed_ips, Used(listing, used).ips,
                               Used(listing, used).names)
          /\ errors' = FormErrors(name, allowed_ips, Used(listing, used).ips,
                                  Used(listing, used).names)
     ELSE /\ form' = NoForm
          /\ errors' = NotValidated
  /\ UNCHANGED <<existing_ips, env_prefix, suggestion, service_vars, token_vars>>

\* a request for clients/<identifier>/enable/ or clients/<identifier>/disable/
ToggleClient(method, staff, given, enable, kind) ==
  /\ Answered(IF enable THEN "enable" ELSE "disable", method, staff, given,
              Resolved(given,
                staff_required(staff,
                  toggle_client(method, given, enable, kind))))
  /\ UNCHANGED <<form_vars, service_vars, token_vars>>

\* a request for clients/<identifier>/delete/
DeleteClient(method, staff, given, kind) ==
  /\ Answered("delete", method, staff, given,
              Resolved(given,
                staff_required(staff, delete_client(method, given, kind))))
  /\ UNCHANGED <<form_vars, service_vars, token_vars>>

InitAudit == ServiceIdle /\ TokensIdle /\ FormIdle /\ AuditIdle

\* the body of a create request; one that is refused before its view reads
\* the body has one
Bodies ==
  [name : CreateNames, allowed_ips : CreateIps, listing : Listings,
   used : UsedByPeers]
BodiesOf(method, staff) ==
  IF staff /\ method = "POST"
  THEN Bodies
  ELSE {[name |-> <<"a", "b", "c">>, allowed_ips |-> IpOne,
         listing |-> Source(FALSE, "read_text", Unlines(<<HeaderLine, KeyLine>>)),
         used |-> [ips |-> {}, names |-> {}]]}

\* what the management script does is an input of the requests that get as
\* far as running it; for the others it is never read
KindsOf(runs) == IF runs THEN ScriptKinds ELSE {"blank_stdout"}
CreateRuns(method, staff, body) ==
  /\ staff
  /\ FormReached(method, body.listing)
  /\ Valid(FormErrors(body.name, body.allowed_ips,
                      Used(body.listing, body.used).ips,
                      Used(body.listing, body.used).names))
IdentifierRuns(method, staff, given) ==
  staff /\ method = "POST" /\ Routed(given) /\ validate_identifier(given)

NextAudit ==
  \/ \E method \in Methods, staff \in BOOLEAN :
       \E body \in BodiesOf(method, staff) :
         \E kind \in KindsOf(CreateRuns(method, staff, body)) :
           CreateClient(method, staff, body.name, body.allowed_ips,
                        body.listing, body.used, kind)
  \/ \E method \in Methods, staff \in BOOLEAN,
        given \in RequestIdentifiers, enable \in BOOLEAN :
       \E kind \in KindsOf(IdentifierRuns(method, staff, given)) :
         ToggleClient(method, staff, given, enable, kind)
  \/ \E method \in Methods, staff \in BOOLEAN, given \in RequestIdentifiers :
       \E kind \in KindsOf(IdentifierRuns(method, staff, given)) :
         DeleteClient(method, staff, given, kind)

SpecAudit == InitAudit /\ [][NextAudit]_vars

(***************************************************************************)
(* Vocabulary of the properties, stated on the text of the config rather   *)
(* than through the parser's operators.                                    *)
(***************************************************************************)
\* the text of a line without its leading `#` run and surrounding whitespace
Uncommented(line) == Strip(LStripHash(line))

\* the line is a `key = value` line for the (lower-case) key
IsKeyLine(line, key) ==
  /\ Contains(Uncommented(line), "=")
  /\ Lower(Strip(SubSeq(Uncommented(line), 1, Find(Uncommented(line), "=") - 1))) = key

\* the value of a `key = value` line: the trimmed text after the first `=`
ValueOf(line) ==
  Strip(SubSeq(Uncommented(line), Find(Uncommented(line), "=") + 1,
               Len(Uncommented(line))))

\* the positions of the block's lines for the key
KeyLines(block, key) == {k \in 1..Len(block) : IsKeyLine(block[k], key)}

Max(S) == CHOOSE x \in S : \A y \in S : y <= x

\* the block has a line for the key
HasKey(block, key) == KeyLines(block, key) # {}

\* the value the block gives the key, where HasKey: the last line's
LastValue(block, key) == ValueOf(block[Max(KeyLines(block, key))])

\* the block names a non-empty public key
HasPublicKey(block) ==
  HasKey(block, PublicKeyKey) /\ LastValue(block, PublicKeyKey) # <<>>

\* the headers that emitted a record, in order
Emitting == {h \in 1..Len(headers) : headers[h].emitted = 1}

\* the header of the k-th record of peers
HeaderOf(k) ==
  CHOOSE h \in Emitting : Cardinality({g \in Emitting : g <= h}) = k

\* _parse_config has returned
ParseDone == pc # "parse_config"

\* C1: every peer record has a non-empty public key; a block without a
\* `publickey` line, or with an empty value, yields no record, every other
\* block yields one, and the scan goes on behind a block that yields none:
\* the blocks tile the config from the first header to its end, and the
\* records are those of the blocks that name a key, in order.
PublicKeyNeverEmpty ==
  /\ \A k \in 1..Len(peers) : peers[k].public_key # <<>>
  /\ \A h \in 1..Len(headers) :
       /\ headers[h].emitted = (IF HasPublicKey(headers[h].block_lines) THEN 1 ELSE 0)
       /\ h < Len(headers) => headers[h + 1].index = headers[h].jump_to
  /\ Len(peers) = Cardinality(Emitting)
  /\ \A k \in 1..Len(peers) :
       peers[k].public_key = LastValue(headers[HeaderOf(k)].block_lines, PublicKeyKey)
  /\ ParseDone /\ headers # <<>> => headers[Len(headers)].jump_to = Len(lines) + 1

\* C1's case: a block without public key, and a record from a block behind it
KeylessBlockThenPeer ==
  /\ ParseDone
  /\ \E g, h \in 1..Len(headers) :
       /\ g < h
       /\ ~HasKey(headers[g].block_lines, PublicKeyKey)
       /\ headers[h].emitted = 1

\* the line is, after trimming, non-empty and does not start with `#`
ActiveText(line) == Strip(line) # <<>> /\ Head(Strip(line)) # "#"

\* the index of the first peer-header line behind index, or the end of file
NextHeaderAfter(index) ==
  IF \E j \in (index + 1)..Len(lines) : is_peer_header(lines[j])
  THEN CHOOSE j \in (index + 1)..Len(lines) :
         /\ is_peer_header(lines[j])
         /\ \A g \in (index + 1)..(j - 1) : ~is_peer_header(lines[g])
  ELSE Len(lines) + 1

RECURSIVE CommentOut(_)
\* the block with every line prefixed with `#`
CommentOut(block) ==
  IF block = <<>> THEN <<>>
  ELSE <<HashMark \o Head(block)>> \o CommentOut(Tail(block))

\* the peers are as _parse_config built them (the merge has not begun)
Unmerged == pc \in {"parse_config", "config_parsed"}

\* C3: the parse of a block with every line prefixed with `#` yields a
\* record exactly when the block itself does, with the same identifier,
\* name, public key, allowed IPs, endpoint and persistent keepalive, and
\* with is_enabled false.
CommentingKeepsFields ==
  Unmerged =>
    /\ \A h \in 1..Len(headers) :
         Len(parse_peer_block(CommentOut(headers[h].block_lines), headers[h].name))
           = headers[h].emitted
    /\ \A k \in 1..Len(peers) :
         LET commented ==
               parse_peer_block(CommentOut(headers[HeaderOf(k)].block_lines),
                                headers[HeaderOf(k)].name)[1]
         IN  /\ commented.public_key = peers[k].public_key
             /\ commented.allowed_ips = peers[k].allowed_ips
             /\ commented.endpoint = peers[k].endpoint
             /\ commented.persistent_keepalive = peers[k].persistent_keepalive
             /\ commented.identifier = peers[k].identifier
             /\ commented.name = peers[k].name
             /\ ~commented.is_enabled

\* C3's case: an enabled record with an endpoint or a keepalive of its own
EnabledPeerWithFields ==
  /\ pc = "config_parsed"
  /\ \E k \in 1..Len(peers) :
       /\ peers[k].is_enabled
       /\ peers[k].endpoint.some \/ peers[k].persistent_keepalive.some
             \/ peers[k].allowed_ips # <<>>

\* the line, without its surrounding whitespace, a leading run of `#` and
\* the whitespace behind it, reads `[peer]` in lower case
ReadsPeerTag(line) == Lower(Strip(LStripHash(Strip(line)))) = PeerTag

\* the indexes of the lines _parse_config has passed over or handled as
\* peer-headers
Handled == {headers[h].index : h \in 1..Len(headers)}
Scanned ==
  {k \in 1..Len(lines) :
     /\ k < i
     /\ \A h \in 1..Len(headers) :
          k < headers[h].index \/ k >= headers[h].jump_to}

\* C4: a line is handled as a peer-header if and only if it reads `[peer]`
\* once its leading `#` run and the surrounding whitespace are gone: no
\* line with other text behind `[peer]` is a header.
HeaderIffPeerTag ==
  /\ \A k \in Handled : ReadsPeerTag(lines[k])
  /\ \A k \in Scanned : ~ReadsPeerTag(lines[k])

\* C5: the block of a peer-header holds no line that the main scan takes
\* for a peer-header, apart from its own first line: every such line ends
\* the block before it.
NoHeaderInsideBlock ==
  \A h \in 1..Len(headers) :
    \A k \in (headers[h].index + 1)..(headers[h].jump_to - 1) :
      ~is_peer_header(Strip(lines[k]))

\* the line is a comment line: it starts, after trimming, with `#`
IsComment(line) == Strip(line) # <<>> /\ Head(Strip(line)) = "#"

\* the text of a comment line
CommentText(line) == Strip(LStripHash(Strip(line)))

\* the contiguous run of comment lines directly above the line at index
CommentRun(index) ==
  {k \in 1..(index - 1) : \A g \in k..(index - 1) : IsComment(lines[g])}

\* the non-empty comments of that run
NamingComments(index) == {k \in CommentRun(index) : CommentText(lines[k]) # <<>>}

\* the name a comment gives: the trimmed text behind the first colon of a
\* `name:` comment, the whole comment otherwise
NameOfComment(comment) ==
  IF Len(comment) >= Len(NameTag) /\ Lower(SubSeq(comment, 1, Len(NameTag))) = NameTag
  THEN Strip(SubSeq(comment, Find(comment, ":") + 1, Len(comment)))
  ELSE comment

\* C6: the name of a peer is the name given by the nearest non-empty comment
\* of the contiguous run of comment lines directly above its header, and
\* absent when that run has no non-empty comment; no comment farther from
\* the header is used.
NameFromNearestComment ==
  \A h \in 1..Len(headers) :
    headers[h].name =
      IF NamingComments(headers[h].index) = {}
      THEN None
      ELSE Some(NameOfComment(CommentText(lines[Max(NamingComments(headers[h].index))])))

\* C6's case: a header under two non-empty comments that give different
\* names, the nearest a `name:` comment
HeaderUnderTwoComments ==
  \E h \in 1..Len(headers) :
    /\ Cardinality(NamingComments(headers[h].index)) >= 2
    /\ headers[h].name = Some(<<"n", "1">>)
    /\ \E k \in NamingComments(headers[h].index) :
         NameOfComment(CommentText(lines[k])) # <<"n", "1">>

\* the first n characters of s: all of s when it has no more
FirstChars(s, n) == [k \in 1..(IF Len(s) <= n THEN Len(s) ELSE n) |-> s[k]]

\* the name found above the header of the k-th record
NameOf(k) == headers[HeaderOf(k)].name

\* C7 as stated: identifier is the derived name when a name is present and
\* the public key otherwise, the display name is the derived name when
\* present and the first 12 characters of the public key otherwise, and
\* identifier is never empty.
IdentifierIsPresentNameOrKey ==
  \A k \in 1..Len(peers) :
    /\ peers[k].identifier =
         (IF NameOf(k).some THEN NameOf(k).val ELSE peers[k].public_key)
    /\ peers[k].name =
         (IF NameOf(k).some THEN NameOf(k).val
          ELSE FirstChars(peers[k].public_key, NameLen))
    /\ peers[k].identifier # <<>>

\* C7 as amended: identifier is the derived name when a non-empty name is
\* present and the public key otherwise, the display name is the derived
\* name when present and non-empty and the first 12 characters of the public
\* key (the whole key when shorter) otherwise, and identifier is never empty.
IdentifierIsNonEmptyNameOrKey ==
  \A k \in 1..Len(peers) :
    /\ peers[k].identifier =
         (IF NameOf(k).some /\ NameOf(k).val # <<>>
          THEN NameOf(k).val ELSE peers[k].public_key)
    /\ peers[k].name =
         (IF NameOf(k).some /\ NameOf(k).val # <<>>
          THEN NameOf(k).val
          ELSE FirstChars(peers[k].public_key, NameLen))
    /\ peers[k].identifier # <<>>

\* C7's case: a record under a `name:` comment that gives the empty name,
\* with a public key of more than 12 characters
PeerUnderEmptyName ==
  \E k \in 1..Len(peers) :
    /\ NameOf(k) = Some(<<>>)
    /\ Len(peers[k].public_key) > NameLen
    /\ peers[k].identifier = peers[k].public_key

\* C8: once the dump has been obtained, list_peers never ends with an
\* exception, whatever the config and the dump hold.
ListPeersNeverRaises == proc.ok => exc = "none"

\* the tab-separated fields of line k of the dump
Fields(k) == Split(proc.stdout[k], "\t")

\* the lines of the dump, the first apart, that are rows for the key
RowsOf(key) ==
  {k \in 2..Len(proc.stdout) : Len(Fields(k)) >= MinFields /\ Fields(k)[2] = key}

\* the public key appears in the runtime dump
InDump(key) == proc.ok /\ RowsOf(key) # {}

\* the row of the key: the last one, when there are several
RowFor(key) == Fields(Max(RowsOf(key)))

\* the merge loop has handled the k-th peer
Merged(k) == pc \in {"merge", "returned"} /\ k < m

\* the five runtime fields of a record
RuntimeFields(peer) ==
  <<peer.endpoint, peer.persistent_keepalive, peer.latest_handshake,
    peer.transfer_rx, peer.transfer_tx>>

\* the five runtime fields a row gives: no endpoint for `(none)`, no
\* handshake for 0 or a non-numeric field, no keepalive for a non-numeric one
FieldsOfRow(row) ==
  <<IF row[4] = NoEndpoint THEN None ELSE Some(row[4]),
    IF IsDigit(row[9]) THEN Some(IntVal(row[9])) ELSE NoneInt,
    IF IsDigit(row[6]) /\ IntVal(row[6]) # 0 THEN Some(IntVal(row[6])) ELSE NoneInt,
    Some(IntVal(row[7])),
    Some(IntVal(row[8]))>>

\* C9: once the merge has handled a peer whose public key appears in the
\* dump, its endpoint, persistent keepalive, latest handshake, transfer-rx
\* and transfer-tx are all those of the dump's row for the key (the last
\* one), whatever the config gave; any other peer has all five as parsed
\* from the config: in no state do only some of the five come from the row.
RuntimeFieldsFromOneRow ==
  ParseDone =>
    \A k \in 1..Len(peers) :
      RuntimeFields(peers[k]) =
        IF Merged(k) /\ InDump(peers[k].public_key)
        THEN FieldsOfRow(RowFor(peers[k].public_key))
        ELSE RuntimeFields(parsed[k])

\* C9's case: list_peers has returned a peer with two rows in the dump,
\* whose configured endpoint the last row's `(none)` has overwritten
EndpointOverwritten ==
  /\ pc = "returned"
  /\ \E k \in 1..Len(peers) :
       /\ InDump(peers[k].public_key)
       /\ Cardinality(RowsOf(peers[k].public_key)) >= 2
       /\ parsed[k].endpoint.some
       /\ ~peers[k].endpoint.some
       /\ peers[k].transfer_rx.some

RuntimeKeysFromRows ==
  pc = "merge" /\ m = 1 /\ proc.ok =>
    \A key \in DOMAIN runtime \cup {KeyA, KeyB} :
      key \in DOMAIN runtime <=> RowsOf(key) # {}

\* C11's case: the dict is built from a dump whose first line is a full row
\* for a key and which has a short row for that key, and has an entry for
\* another key only
FirstAndShortRowsSkipped ==
  /\ pc = "merge"
  /\ proc.ok
  /\ Len(proc.stdout) >= 1
  /\ Len(Fields(1)) >= MinFields
  /\ \E j \in 2..Len(proc.stdout) :
       Len(Fields(j)) < MinFields /\ Len(Fields(j)) >= 2 /\ Fields(j)[2] = Fields(1)[2]
  /\ Fields(1)[2] \notin DOMAIN runtime
  /\ DOMAIN runtime # {}

\* the status query has been made and has failed
QueryFailed == proc \in WgFailures

\* C12: when the status query fails, list_peers with runtime requested
\* returns exactly the records of a config-only list_peers, and raises no
\* error.
QueryFailureIsConfigOnly ==
  QueryFailed =>
    /\ exc = "none"
    /\ pc \in {"merge", "returned"}
    /\ peers = parsed

\* C12 for the failures _runtime_peer_map catches: with the helper binary
\* missing or exiting non-zero, list_peers returns the config-only records
CaughtFailureIsConfigOnly ==
  QueryFailed /\ proc.error \in CaughtByQuery =>
    /\ exc = "none"
    /\ pc \in {"merge", "returned"}
    /\ peers = parsed

\* the keys of the block's `key = value` lines
KeysOf(block) ==
  {Lower(Strip(SubSeq(Uncommented(block[k]), 1, Find(Uncommented(block[k]), "=") - 1))) :
     k \in {j \in 1..Len(block) : Contains(Uncommented(block[j]), "=")}}

\* C20: the dict data of a block has a key for every line of the block,
\* active or commented, that holds `=` once its leading `#` run and then
\* its surrounding whitespace are gone: the key is the trimmed, lower-cased
\* text before the first `=`, the value the trimmed text behind the first
\* `=` (which may hold `=`) of the last line of the block with that key.
DataFromEveryLine ==
  \A h \in 1..Len(headers) :
    /\ DOMAIN headers[h].data = KeysOf(headers[h].block_lines)
    /\ \A key \in DOMAIN headers[h].data :
         headers[h].data[key] = LastValue(headers[h].block_lines, key)

\* C20's case: a block with two lines for one key, the last one commented
\* out and with `=` in its value, which is the value of the key
CommentedLastValueWins ==
  \E h \in 1..Len(headers) :
    /\ Cardinality(KeyLines(headers[h].block_lines, PublicKeyKey)) >= 2
    /\ StartsWith(headers[h].block_lines[Max(KeyLines(headers[h].block_lines, PublicKeyKey))],
                  HashMark)
    /\ Contains(headers[h].data[PublicKeyKey], "=")
    /\ \E k \in KeyLines(headers[h].block_lines, PublicKeyKey) :
         ValueOf(headers[h].block_lines[k]) # headers[h].data[PublicKeyKey]

\* the causes for which no config text is obtained: the file cannot be
\* read or is missing, the helper script is missing, fails, times out or
\* prints no config
UnreadableKinds ==
  {"PermissionError", "FileNotFoundError", "script_missing", "TimeoutExpired",
   "CalledProcessError", "blank_stdout", "non_json", "json_no_config"}

ReadWithoutPeers ==
  /\ source.kind \in {"read_text", "json_config"}
  /\ \A k \in 1..Len(SplitLines(source.text)) :
       ~is_peer_header(Strip(SplitLines(source.text)[k]))

\* C14: a config that is read but is empty or holds no peer block gives an
\* empty list of peers and no error, read from the file or through the
\* helper script.
EmptyConfigIsNoError ==
  ReadWithoutPeers => exc = "none" /\ pc # "raised" /\ peers = <<>>

\* C14 for the file and for a helper's text that is not empty: no error,
\* no peers
NonEmptyOrDirectIsNoError ==
  ReadWithoutPeers /\ (~source.use_sudo \/ source.text # <<>>) =>
    exc = "none" /\ pc # "raised" /\ peers = <<>>

\* the positions of the records the identifier names, once trimmed
Matches ==
  {k \in 1..Len(peers) :
     \/ peers[k].identifier = Strip(identifier)
     \/ peers[k].public_key = Strip(identifier)}

\* C15: get_peer returns the first record of the list whose identifier or
\* public key is the given text without its surrounding whitespace, exactly
\* and in the same case, and nothing when there is none; every record of
\* the list is found by its identifier and by its public key.
GetPeerFirstMatch ==
  /\ pc = "got" =>
       IF Matches = {} THEN ~found.some ELSE found = Some(peers[Min(Matches)])
  /\ pc \in {"returned", "got"} =>
       \A k \in 1..Len(peers) :
         /\ get_peer(peers, peers[k].identifier).some
         /\ get_peer(peers, peers[k].public_key).some

\* C15's case: get_peer, given a key with whitespace around it that two
\* different records have, returned the first
PaddedKeyFindsFirst ==
  /\ pc = "got"
  /\ identifier # Strip(identifier)
  /\ \E k \in Matches : k # Min(Matches) /\ peers[k] # peers[Min(Matches)]
  /\ found = Some(peers[Min(Matches)])

\* C16: a public request, page or download, with a token that has no row,
\* or whose row is inactive, or whose row has expired (now >= expires_at),
\* ends in a 404 response, whatever creations, waits, cleanups and
\* requests came before: no config is rendered or served for it.
BadTokenGets404 ==
  [][response' # NoResponse =>
       ((\/ response'.token \notin DOMAIN tokens
         \/ ~tokens[response'.token].is_active
         \/ now >= tokens[response'.token].expires_at)
        => response'.status = 404)]_vars

\* C16's case: a request with a token that was deactivated before its
\* expiry got 404
InactiveTokenRefused ==
  /\ response.view = "public_config"
  /\ response.status = 404
  /\ response.token \in DOMAIN tokens
  /\ ~tokens[response.token].is_active
  /\ now < tokens[response.token].expires_at

\* C17: a public request with an active token whose expiry time has come
\* (now >= expires_at, the expiry minute included) leaves the token's row
\* inactive and responds 404; one with an active token before its expiry
\* changes no row.
ExpiredTokenDeactivated ==
  [][response' # NoResponse /\ response'.token \in DOMAIN tokens
       /\ tokens[response'.token].is_active =>
       IF now >= tokens[response'.token].expires_at
       THEN /\ response'.status = 404
            /\ response'.token \in DOMAIN tokens'
            /\ ~tokens'[response'.token].is_active
       ELSE tokens' = tokens]_vars

\* C17's case: a download request at the very minute of expiry saved the
\* token inactive and got 404
ExpiryMinuteDeactivates ==
  /\ response.view = "public_config_download"
  /\ response.saved
  /\ response.status = 404
  /\ response.token \in DOMAIN tokens
  /\ now = tokens[response.token].expires_at
  /\ ~tokens[response.token].is_active

\* the hosts of the suggestion's prefix that existing IPv4 entries hold
TakenHosts ==
  {entry.host : entry \in
     {e \in existing_ips : e.kind = "v4" /\ e.net = suggestion.val.net}}

\* C18: the address returned is a /32 whose host is the smallest of 2..254
\* that no existing IPv4 entry of the prefix holds: it is never the
\* address of an existing allowed IP.
SuggestionIsFree ==
  suggestion.some =>
    /\ suggestion.val.prefixlen = HostBits
    /\ suggestion.val.host \in HostLo..HostHi
    /\ suggestion.val.host \notin TakenHosts
    /\ \A host \in HostLo..(suggestion.val.host - 1) : host \in TakenHosts

\* C18 while a host of 2..254 is left under the prefix: the address
\* returned is the smallest free one
SuggestionIsFreeWhileLeft ==
  suggestion.some /\ (HostLo..HostHi) \ TakenHosts # {} =>
    /\ suggestion.val.prefixlen = HostBits
    /\ suggestion.val.host \in HostLo..HostHi
    /\ suggestion.val.host \notin TakenHosts
    /\ \A host \in HostLo..(suggestion.val.host - 1) : host \in TakenHosts

\* the comma-separated pieces of the form's allowed_ips, trimmed
Pieces ==
  {Strip(Split(form.allowed_ips, ",")[k]) : k \in 1..Len(Split(form.allowed_ips, ","))}

ManagementScripts ==
  {"wg_create_peer.sh", "wg_toggle_peer.sh", "wg_delete_peer.sh"}
IsManagement(call) == call.script \in ManagementScripts

\* the rows written and the management scripts run by the request of a step
NewEntries == SubSeq(audit_log', Len(audit_log) + 1, Len(audit_log'))
NewManagementCalls ==
  SelectSeq(SubSeq(script_calls', Len(script_calls) + 1, Len(script_calls')),
            IsManagement)

\* the text is in [A-Za-z0-9._+=-]+
InPattern(text) ==
  text # <<>> /\ \A k \in 1..Len(text) : IsIdentifierChar(text[k])

\* the call is the one the row's action is made by, for the row's client
Corresponds(entry, call) ==
  /\ call.id = entry.client_identifier
  /\ CASE entry.action = "create" ->
            call.script = "wg_create_peer.sh" /\ call.allowed_ips = entry.details
       [] entry.action = "enable" ->
            call.script = "wg_toggle_peer.sh" /\ call.flag = "--enable"
       [] entry.action = "disable" ->
            call.script = "wg_toggle_peer.sh" /\ call.flag = "--disable"
       [] entry.action = "delete" -> call.script = "wg_delete_peer.sh"
       [] OTHER -> FALSE

\* the request of a step is one the views refuse before any script
RefusedRequest ==
  \/ request'.method # "POST"
  \/ request'.view \in {"enable", "disable", "delete"}
       /\ ~InPattern(request'.identifier)
  \/ request'.view = "create" /\ form'.bound /\ ~Valid(errors')

\* C21: in every sequence of create, enable, disable and delete requests, a
\* request adds at most one AuditLog row, and only when its own management
\* script, called for the row's action and client, has returned
\* successfully; a request that is not a POST, whose identifier is outside
\* [A-Za-z0-9._+=-]+, whose create form is invalid, or whose script fails
\* adds no row, and the first three run no management script.
AuditOnlyAfterScript ==
  [][/\ Len(audit_log') >= Len(audit_log)
     /\ SubSeq(audit_log', 1, Len(audit_log)) = audit_log
     /\ Len(NewEntries) <= 1
     /\ NewEntries # <<>> =>
          /\ Len(NewManagementCalls) = 1
          /\ NewManagementCalls[1].returned
          /\ Corresponds(NewEntries[1], NewManagementCalls[1])
     /\ (\E k \in 1..Len(NewManagementCalls) : ~NewManagementCalls[k].returned)
          => NewEntries = <<>>
     /\ RefusedRequest => NewEntries = <<>> /\ NewManagementCalls = <<>>]_vars

\* C21's case: a request whose script returned wrote its row, and the next
\* request, for the same client, ran the script, which failed, and wrote none
FailedScriptAfterAudited ==
  /\ request.number = 2
  /\ request.outcome = "script_error"
  /\ Len(audit_log) = 1
  /\ Len(script_calls) = 2
  /\ script_calls[1].returned
  /\ Corresponds(audit_log[1], script_calls[1])
  /\ ~script_calls[2].returned
  /\ script_calls[2].id = script_calls[1].id

\* C21's other cases: a request with an identifier outside the pattern, one
\* that is no POST and one with an invalid form came after a row was written
RefusedAfterAudited ==
  /\ request.number = 2
  /\ Len(audit_log) = 1
  /\ Len(script_calls) = 1
  /\ \/ request.view = "delete" /\ ~InPattern(request.identifier)
     \/ request.method = "GET"
     \/ request.view = "create" /\ form.bound /\ ~Valid(errors)

\* the line is a comment line
IsCommentLine(line) == StartsWith(Strip(line), HashMark)

\* the block is that of a disabled peer: it is commented out line by line,
\* names a public key, and behind its header has nothing but `key = value`
\* lines, so no comment that could name a peer
IsDisabledKeyValueBlock(block) ==
  /\ \A j \in 1..Len(block) : IsCommentLine(block[j])
  /\ \A j \in 2..Len(block) : Contains(Uncommented(block[j]), "=")
  /\ HasPublicKey(block)

\* the record of a header that emitted one
RecordOf(h) == peers[Cardinality({g \in Emitting : g <= h})]

\* C22: no peer is named by a line of the block before it: a header that
\* directly follows a fully commented-out block of a header and `key = value`
\* lines has no name, and its record's identifier is its public key.
NameNotFromEarlierBlock ==
  \A h \in 2..Len(headers) :
    headers[h - 1].jump_to = headers[h].index
      /\ IsDisabledKeyValueBlock(headers[h - 1].block_lines) =>
        /\ headers[h].name = None
        /\ headers[h].emitted = 1 => RecordOf(h).identifier = RecordOf(h).public_key

====
